---- MODULE Spec2Model ----
(***************************************************************************)
(* Linear-response TDA / TDHF for generalized-spin-orbital references      *)
(* (pyscf/tdscf/ghf.py): the initial-guess generator, the dense A/B        *)
(* assembler, the eigenvalue pick callbacks, the response operators and    *)
(* the two solve entry points, each as a state machine over small integer  *)
(* inputs.                                                                 *)
(*                                                                         *)
(* Numbers.  Orbital energies, eigenvalues and thresholds are fixed-point   *)
(* integers in units of 1e-6 (Micro below); tensors of the operator and of *)
(* the assembler are integer valued (real orbitals: get_ab asserts a real  *)
(* dtype, and the operator inputs are restricted to real coefficients, on  *)
(* which numpy's conj() returns its argument).                             *)
(***************************************************************************)
EXTENDS Integers, Sequences, FiniteSets, TLC

VARIABLES guess, ab, pk, op, kn

vars == <<guess, ab, pk, op, kn>>

\* A component that takes no part in the specification being checked.
Idle == [pc |-> "idle"]

---------------------------------------------------------------------------
(* Generic helpers: numpy indexing and reductions.                          *)

Indices(n) == [k \in 1..n |-> k]

Range(s) == {s[k] : k \in 1..Len(s)}

\* numpy.where(seq == val)[0]: the positions holding val, ascending.
Where(s, val) == SelectSeq(Indices(Len(s)), LAMBDA k : s[k] = val)

\* (seq > 0).sum()
CountPositive(s) == Cardinality({k \in 1..Len(s) : s[k] > 0})

Min2(x, y) == IF x <= y THEN x ELSE y

SeqMax(s) == CHOOSE v \in Range(s) : \A u \in Range(s) : u <= v

\* e[numpy.argsort(e)[k-1]]: the k-th smallest value of e, counted with
\* multiplicity.
KthSmallest(e, k) ==
  CHOOSE v \in Range(e) :
    /\ Cardinality({j \in 1..Len(e) : e[j] < v}) < k
    /\ Cardinality({j \in 1..Len(e) : e[j] <= v}) >= k

RECURSIVE SumOver(_, _)
\* sum of f[x] for x in the finite set S
SumOver(f, S) ==
  IF S = {} THEN 0
  ELSE LET x == CHOOSE y \in S : TRUE IN f[x] + SumOver(f, S \ {x})

\* numpy's % 10 on non-negative irrep ids
Mod10(n) == n % 10

RECURSIVE Xor(_, _)
\* bitwise exclusive or (numpy ^) of two naturals
Xor(x, y) ==
  IF x = 0 /\ y = 0 THEN 0
  ELSE (((x % 2) + (y % 2)) % 2) + 2 * Xor(x \div 2, y \div 2)

\* wfnsym = None
NoSym == [given |-> FALSE, id |-> 0]

SymTargets == {NoSym, [given |-> TRUE, id |-> 0], [given |-> TRUE, id |-> 1],
               [given |-> TRUE, id |-> 11]}

---------------------------------------------------------------------------
(* Initial-guess generator: TDA.init_guess and TDHF.init_guess.             *)

\* Number of orbitals of the references handed to init_guess.
GuessNMO == 3

\* Largest requested number of states.
MaxNStates == 3

\* 1e-6, the degeneracy tolerance, in units of 1e-6.
E_TOL == 1

\* The gap forced on symmetry-forbidden pairs (1e99 in the source): a value
\* above every gap the bounded energies can produce.
E_SENTINEL == 2000000000

EnergyLevels == {-2, -1, 0, 3}

\* Occupations of a generalized-spin-orbital reference: 0 or 1 per orbital.
OccPatterns == [1..GuessNMO -> {0, 1}]

EnergyPatterns ==
  {e \in [1..GuessNMO -> EnergyLevels] : \A k \in 1..(GuessNMO - 1) : e[k] <= e[k + 1]}

OrbsymPatterns == {[k \in 1..GuessNMO |-> 0], [k \in 1..GuessNMO |-> k % 2],
                   [k \in 1..GuessNMO |-> IF k = 1 THEN 10 ELSE 1]}

\* (orbsym_in_d2h[occidx,None] ^ orbsym_in_d2h[viridx]) != wfnsym, flattened
\* row-major over (occupied, virtual); wfnsym already reduced % 10.
SymForbid(orbsym, occidx, viridx, wfnsym) ==
  [p \in 1..(Len(occidx) * Len(viridx)) |->
     LET i == ((p - 1) \div Len(viridx)) + 1
         a == ((p - 1) % Len(viridx)) + 1
     IN Xor(Mod10(orbsym[occidx[i]]), Mod10(orbsym[viridx[a]])) # Mod10(wfnsym)]

\* The occupation value init_guess looks for when it collects the occupied
\* orbitals.
GuessOccValue == 2

\* Lines 351-362: selection among the flattened gaps e_ia.
SelectGuess(e_ia, e_ia_max, nstates0) ==
  LET nov == Len(e_ia)
      nstates == Min2(nstates0, nov)
      e_threshold == Min2(e_ia_max, KthSmallest(e_ia, nstates)) + E_TOL
      idx == SelectSeq(Indices(nov), LAMBDA j : e_ia[j] <= e_threshold)
  IN [err |-> "none",
      x0 |-> [r \in 1..Len(idx) |-> [c \in 1..nov |-> IF c = idx[r] THEN 1 ELSE 0]]]

TDA_init_guess(mf, nstates, wfnsym) ==
  LET occidx == Where(mf.mo_occ, GuessOccValue)
      viridx == Where(mf.mo_occ, 0)
      nocc == Len(occidx)
      nvir == Len(viridx)
      gaps == [p \in 1..(nocc * nvir) |->
                 mf.mo_energy[viridx[((p - 1) % nvir) + 1]]
                   - mf.mo_energy[occidx[((p - 1) \div nvir) + 1]]]
  IN IF nocc * nvir = 0
     THEN \* e_ia.max() of a zero-size array
          [err |-> "ValueError", x0 |-> <<>>]
     ELSE LET e_ia_max == SeqMax(gaps)
              forbid == SymForbid(mf.orbsym, occidx, viridx, wfnsym.id)
              e_ia == IF wfnsym.given /\ mf.symmetry
                      THEN [p \in 1..(nocc * nvir) |->
                              IF forbid[p] THEN E_SENTINEL ELSE gaps[p]]
                      ELSE gaps
          IN SelectGuess(e_ia, e_ia_max, nstates)

\* numpy.hstack((x0, zeros_like(x0)))
TDHF_init_guess(mf, nstates, wfnsym) ==
  LET r == TDA_init_guess(mf, nstates, wfnsym)
  IN IF r.err # "none" THEN r
     ELSE [err |-> "none",
           x0 |-> [k \in 1..Len(r.x0) |->
                     r.x0[k] \o [c \in 1..Len(r.x0[k]) |-> 0]]]

GuessInit ==
  /\ guess \in {[pc |-> "call", cls |-> c,
                 mf |-> [mo_occ |-> o, mo_energy |-> e, orbsym |-> s, symmetry |-> y],
                 nstates |-> n, wfnsym |-> w,
                 ret |-> [err |-> "pending", x0 |-> <<>>]] :
                c \in {"TDA", "TDHF"}, o \in OccPatterns, e \in EnergyPatterns,
                s \in OrbsymPatterns, y \in BOOLEAN, n \in 1..MaxNStates,
                w \in SymTargets}
  /\ ab = Idle /\ pk = Idle /\ op = Idle /\ kn = Idle

CallTDAInitGuess ==
  /\ guess.pc = "call" /\ guess.cls = "TDA"
  /\ guess' = [guess EXCEPT !.pc = "done",
                 !.ret = TDA_init_guess(guess.mf, guess.nstates, guess.wfnsym)]
  /\ UNCHANGED <<ab, pk, op, kn>>

CallTDHFInitGuess ==
  /\ guess.pc = "call" /\ guess.cls = "TDHF"
  /\ guess' = [guess EXCEPT !.pc = "done",
                 !.ret = TDHF_init_guess(guess.mf, guess.nstates, guess.wfnsym)]
  /\ UNCHANGED <<ab, pk, op, kn>>

(* Claims about the initial-guess generator.                                *)

\* The occupied and virtual orbitals of a generalized-spin-orbital reference
\* as the claims name them: occupation 1 and occupation 0.
ClaimOcc(mf) == Where(mf.mo_occ, 1)

ClaimVir(mf) == Where(mf.mo_occ, 0)

ClaimNov(mf) == Len(ClaimOcc(mf)) * Len(ClaimVir(mf))

ClaimGaps(mf) ==
  [p \in 1..ClaimNov(mf) |->
     mf.mo_energy[ClaimVir(mf)[((p - 1) % Len(ClaimVir(mf))) + 1]]
       - mf.mo_energy[ClaimOcc(mf)[((p - 1) \div Len(ClaimVir(mf))) + 1]]]

\* A finished init_guess call on a 0/1-occupied reference with at least one
\* occupied and one virtual orbital and no symmetry filter in force.
GuessCase ==
  /\ guess.pc = "done"
  /\ Len(ClaimOcc(guess.mf)) >= 1 /\ Len(ClaimVir(guess.mf)) >= 1
  /\ ~(guess.wfnsym.given /\ guess.mf.symmetry)

IsUnitRow(row) ==
  /\ Cardinality({c \in 1..Len(row) : row[c] = 1}) = 1
  /\ \A c \in 1..Len(row) : row[c] \in {0, 1}

\* C1: on a 0/1-occupied reference without symmetry filter, TDA.init_guess
\* returns a matrix of width nocc*nvir (nocc = number of occupation-1
\* orbitals) with at least min(n_states, nocc*nvir) rows, and TDHF.init_guess
\* returns rows of doubled width whose second half is zero.
C1_GuessShape ==
  GuessCase =>
    LET nov == ClaimNov(guess.mf)
        x0 == guess.ret.x0
    IN /\ guess.ret.err = "none"
       /\ Len(x0) >= Min2(guess.nstates, nov)
       /\ \A r \in 1..Len(x0) :
            IF guess.cls = "TDA" THEN Len(x0[r]) = nov
            ELSE /\ Len(x0[r]) = 2 * nov
                 /\ \A c \in (nov + 1)..(2 * nov) : x0[r][c] = 0

\* C8: init_guess returns exactly the pairs whose gap is within 1e-6 of the
\* n_states-th smallest gap, one unit row per pair, no pair twice; so two
\* equal lowest gaps with n_states = 1 give two rows.
C8_GuessDegenerate ==
  (GuessCase /\ guess.cls = "TDA") =>
    LET gaps == ClaimGaps(guess.mf)
        nov == ClaimNov(guess.mf)
        bound == KthSmallest(gaps, Min2(guess.nstates, nov)) + E_TOL
        x0 == guess.ret.x0
    IN /\ guess.ret.err = "none"
       /\ \A r \in 1..Len(x0) : Len(x0[r]) = nov /\ IsUnitRow(x0[r])
       /\ \A r1, r2 \in 1..Len(x0) : r1 # r2 => x0[r1] # x0[r2]
       /\ {p \in 1..nov : \E r \in 1..Len(x0) : x0[r][p] = 1}
            = {p \in 1..nov : gaps[p] <= bound}

\* A finished init_guess call on a 0/1-occupied reference with at least one
\* occupied and one virtual orbital and the symmetry filter in force.
GuessFilteredCase ==
  /\ guess.pc = "done"
  /\ Len(ClaimOcc(guess.mf)) >= 1 /\ Len(ClaimVir(guess.mf)) >= 1
  /\ guess.wfnsym.given /\ guess.mf.symmetry

\* the symmetry-allowed (occupied, virtual) pairs, as flat positions
AllowedPairs(mf, wfnsym) ==
  {p \in 1..ClaimNov(mf) :
     ~SymForbid(mf.orbsym, ClaimOcc(mf), ClaimVir(mf), wfnsym.id)[p]}

\* the flat positions at which some returned row is nonzero
GuessedPairs(x0, nov) == {p \in 1..nov : \E r \in 1..Len(x0) : x0[r][p] # 0}

\* C11: with a symmetry filter active, init_guess returns no guess vector at
\* a symmetry-forbidden pair, for every n_states >= 1; when n_states reaches
\* or exceeds the number of allowed pairs (the allowed pair with the largest
\* gap at the selection boundary included) the result contains exactly the
\* allowed pairs.
C11_GuessAllowedOnly ==
  GuessFilteredCase =>
    LET nov == ClaimNov(guess.mf)
        allowed == AllowedPairs(guess.mf, guess.wfnsym)
        x0 == guess.ret.x0
    IN /\ GuessedPairs(x0, nov) \subseteq allowed
       /\ guess.nstates >= Cardinality(allowed) =>
            /\ guess.ret.err = "none"
            /\ GuessedPairs(x0, nov) = allowed
            /\ Len(x0) = Cardinality(allowed)
            /\ \A r \in 1..Len(x0) : IsUnitRow(SubSeq(x0[r], 1, nov))

GuessNext == CallTDAInitGuess \/ CallTDHFInitGuess

SpecGuess == GuessInit /\ [][GuessNext]_vars

---------------------------------------------------------------------------
(* Eigenvalue pick callbacks of TDA.kernel and TDHF.kernel.                 *)

\* One unit of the fixed-point representation is 1e-6.
Micro == 1000 * 1000

\* x**2 on fixed-point numbers
FixSquare(x) == (x * x) \div Micro

\* 1e-3
POSTIVE_EIG_THRESHOLD == 1000

\* 1e-4
REAL_EIG_THRESHOLD == 100

Abs(x) == IF x < 0 THEN -x ELSE x

\* Longest eigenvalue list handed to a pick callback.
MaxEigs == 3

\* Real eigenvalues of the projected TDA problem: negative, zero, the
\* squared threshold (1e-6) and its neighbour, the threshold and its neighbour.
EigValues == {-1000, 0, 1, 2, 1000, 1001}

\* Complex eigenvalues of the projected non-Hermitian problem.
ComplexEigValues ==
  {[re |-> r, im |-> i] : r \in {1, 1000, 1001}, i \in {0, 99, 100, -100}}

\* Eigenvector matrices, as sequences of columns.
EigVectors(n) ==
  {[j \in 1..n |-> [r \in 1..n |-> IF r = j THEN 1 ELSE 0]],
   [j \in 1..n |-> [r \in 1..n |-> IF r = n + 1 - j THEN 1 ELSE j]]}

\* seq[idx] for an index sequence idx (numpy fancy indexing; v[:,idx] on
\* a sequence of columns)
Take(s, idx) == [k \in 1..Len(idx) |-> s[idx[k]]]

TDA_pickeig_ge(w, v, nroots) ==
  LET idx == SelectSeq(Indices(Len(w)),
                       LAMBDA k : w[k] >= FixSquare(POSTIVE_EIG_THRESHOLD))
  IN [w |-> Take(w, idx), v |-> Take(v, idx), idx |-> idx]

\* TDA.kernel / pickeig
TDA_pickeig(w, v, nroots) ==
  LET idx == SelectSeq(Indices(Len(w)),
                       LAMBDA k : w[k] > FixSquare(POSTIVE_EIG_THRESHOLD))
  IN [w |-> Take(w, idx), v |-> Take(v, idx), idx |-> idx]

\* TDHF.kernel / pickeig: the indices handed on to _eigs_cmplx2real, which
\* builds the returned triple from them.
TDHF_realidx(w) ==
  SelectSeq(Indices(Len(w)),
            LAMBDA k : Abs(w[k].im) < REAL_EIG_THRESHOLD
                       /\ w[k].re > POSTIVE_EIG_THRESHOLD)

PickInit ==
  /\ pk \in UNION {
       {[pc |-> "call", cls |-> "TDA", w |-> w, v |-> v, nroots |-> n,
         ret |-> [w |-> <<>>, v |-> <<>>, idx |-> <<>>]] :
          w \in [1..n -> EigValues], v \in EigVectors(n)}
       \cup
       {[pc |-> "call", cls |-> "TDHF", w |-> w, v |-> v, nroots |-> n,
         ret |-> [w |-> <<>>, v |-> <<>>, idx |-> <<>>]] :
          w \in [1..n -> ComplexEigValues], v \in {<<>>}} : n \in 1..MaxEigs}
  /\ guess = Idle /\ ab = Idle /\ op = Idle /\ kn = Idle

CallTDAPick ==
  /\ pk.pc = "call" /\ pk.cls = "TDA"
  /\ pk' = [pk EXCEPT !.pc = "done", !.ret = TDA_pickeig(pk.w, pk.v, pk.nroots)]
  /\ UNCHANGED <<guess, ab, op, kn>>

CallTDHFPick ==
  /\ pk.pc = "call" /\ pk.cls = "TDHF"
  /\ pk' = [pk EXCEPT !.pc = "done",
              !.ret = [w |-> <<>>, v |-> <<>>, idx |-> TDHF_realidx(pk.w)]]
  /\ UNCHANGED <<guess, ab, op, kn>>

IsAscending(s) == \A k \in 1..(Len(s) - 1) : s[k] <= s[k + 1]

\* The TDA pick accepts exactly the eigenvalues strictly above `limit`, with
\* their columns and input positions, keeping the input order.
TDAPickAccepts(limit) ==
  (pk.pc = "done" /\ pk.cls = "TDA") =>
    /\ Range(pk.ret.idx) = {k \in 1..Len(pk.w) : pk.w[k] > limit}
    /\ \A k \in 1..Len(pk.ret.idx) : pk.ret.w[k] > limit
    /\ Len(pk.ret.w) = Len(pk.ret.idx) /\ Len(pk.ret.v) = Len(pk.ret.idx)
    /\ \A k \in 1..Len(pk.ret.idx) :
         /\ pk.ret.w[k] = pk.w[pk.ret.idx[k]]
         /\ pk.ret.v[k] = pk.v[pk.ret.idx[k]]
    /\ \A k \in 1..(Len(pk.ret.idx) - 1) : pk.ret.idx[k] < pk.ret.idx[k + 1]
    /\ IsAscending(pk.w) => IsAscending(pk.ret.w)

\* C4 as claimed: the TDA pick accepts exactly the eigenvalues strictly above
\* POSTIVE_EIG_THRESHOLD, the value the RPA pick compares real parts with.
C4_PickAboveThreshold == TDAPickAccepts(POSTIVE_EIG_THRESHOLD)

\* C4 amended: the TDA pick accepts exactly the eigenvalues strictly above
\* the square of POSTIVE_EIG_THRESHOLD (1e-6 for the default 1e-3), with the
\* matching columns and input indices, in ascending order when w is
\* ascending; the RPA pick compares real parts with the unsquared threshold.
C4_PickAboveSquaredThreshold ==
  /\ TDAPickAccepts(FixSquare(POSTIVE_EIG_THRESHOLD))
  /\ (pk.pc = "done" /\ pk.cls = "TDHF") =>
       \A k \in Range(pk.ret.idx) : pk.w[k].re > POSTIVE_EIG_THRESHOLD

\* C4 witness: an ascending list holding an eigenvalue at the squared
\* threshold (rejected) and one between it and the threshold (accepted).
C4_Witness ==
  /\ pk.pc = "done" /\ pk.cls = "TDA" /\ IsAscending(pk.w)
  /\ \E k \in 1..Len(pk.w) : pk.w[k] = FixSquare(POSTIVE_EIG_THRESHOLD)
  /\ \E k \in Range(pk.ret.idx) :
        pk.w[k] > FixSquare(POSTIVE_EIG_THRESHOLD) /\ pk.w[k] <= POSTIVE_EIG_THRESHOLD
  /\ Len(pk.ret.idx) < Len(pk.w)

PickNext == CallTDAPick \/ CallTDHFPick

SpecPick == PickInit /\ [][PickNext]_vars

---------------------------------------------------------------------------
(* Dense-block assembler: get_ab.                                           *)
(*                                                                         *)
(* Tensors over (occupied, virtual) pairs are indexed by the flattened     *)
(* pair p = (i-1)*nvir + a; A and B are nov x nov matrices [p][q] standing *)
(* for A[i,a,j,b] and B[i,a,j,b].  Component 1 of a grid quantity is its   *)
(* value, components 2..4 its gradient (numpy's 0 and 1:4).                *)

\* Most quadrature batches the grid iterator yields in one call.
MaxGridBatches == 2

\* A 1..n-indexed function as an explicit tuple.
Tup(s) == s \o <<>>

PairI(p, nvir) == ((p - 1) \div nvir) + 1

PairA(p, nvir) == ((p - 1) % nvir) + 1

GradComps == 2..4

\* Two-electron integrals (pq|rs) over two spatial basis functions, with the
\* eightfold symmetry of real integrals, built from symmetric g and h.
EriFrom(g, h) ==
  [p \in 1..2 |-> [q \in 1..2 |-> [r \in 1..2 |-> [s \in 1..2 |->
     g[p][q] * g[r][s] + h[p][r] * h[q][s] + h[p][s] * h[q][r]]]]]

\* Orbital coefficients, rows (alpha 1, alpha 2, beta 1, beta 2), one column
\* per orbital: spin-pure orbitals, and orbitals mixing both spins.
CoeffSamples ==
  {<<<<1, 0, 0, 0>>, <<0, 0, 1, 0>>, <<0, 1, 0, 0>>, <<0, 0, 0, 1>>>>,
   <<<<1, 1, 0, 0>>, <<0, 0, 1, 1>>, <<1, -1, 0, 0>>, <<0, 0, 1, -1>>>>}

ABReferences ==
  {[mo_coeff |-> c, mo_occ |-> x[1], mo_energy |-> <<-3, -1, 2, 4>>, eri |-> x[2]] :
     c \in CoeffSamples,
     x \in {<<<<1, 1, 0, 0>>, EriFrom(<<<<2, 1>>, <<1, 3>>>>, <<<<0, 0>>, <<0, 0>>>>)>>,
            <<<<1, 0, 0, 1>>, EriFrom(<<<<1, 0>>, <<0, 2>>>>, <<<<1, 1>>, <<1, 0>>>>)>>}}

\* The functional setting of the reference: a Hartree-Fock object (ks =
\* FALSE) or a Kohn-Sham object with its functional family, nlc setting,
\* collinearity, hybrid fraction and whether second derivatives exist.
ABFunctionals ==
  {[ks |-> FALSE, xctype |-> "HF", nlc |-> "", collinear |-> TRUE, hyb |-> 1,
    deriv2 |-> TRUE]}
  \cup
  {[ks |-> TRUE, xctype |-> x, nlc |-> n, collinear |-> c, hyb |-> h, deriv2 |-> d] :
     x \in {"HF", "LDA", "GGA", "NLC", "MGGA"}, n \in {"", "VV10"},
     c \in BOOLEAN, h \in {0, 1}, d \in BOOLEAN}

\* Second functional derivatives at a grid point (eval_xc, deriv=2).
KernelSamples ==
  {[uu |-> 0, ud |-> 0, dd |-> 0, u_u |-> 1, u_d |-> 0, d_d |-> 1,
    u_uu |-> 0, u_ud |-> 0, u_dd |-> 0, d_uu |-> 0, d_ud |-> 0, d_dd |-> 0,
    uu_uu |-> 0, uu_ud |-> 0, uu_dd |-> 0, ud_ud |-> 0, ud_dd |-> 0, dd_dd |-> 0],
   [uu |-> 1, ud |-> 1, dd |-> 1, u_u |-> 1, u_d |-> 1, d_d |-> 1,
    u_uu |-> 1, u_ud |-> 1, u_dd |-> 1, d_uu |-> 1, d_ud |-> 1, d_dd |-> 1,
    uu_uu |-> 1, uu_ud |-> 1, uu_dd |-> 1, ud_ud |-> 1, ud_dd |-> 1, dd_dd |-> 1],
   [uu |-> 1, ud |-> -1, dd |-> 2, u_u |-> -2, u_d |-> 1, d_d |-> 3,
    u_uu |-> 1, u_ud |-> 2, u_dd |-> -1, d_uu |-> 0, d_ud |-> 1, d_dd |-> 2,
    uu_uu |-> 1, uu_ud |-> 0, uu_dd |-> 2, ud_ud |-> -1, ud_dd |-> 1, dd_dd |-> 3]}

\* Basis-function values and gradients at a grid point: ao[x][p].
AOSamples ==
  {<<<<1, 0>>, <<1, 0>>, <<0, 0>>, <<0, 1>>>>,
   <<<<1, 1>>, <<0, 1>>, <<1, 0>>, <<0, 0>>>>}

\* One grid point of a batch: basis values, weight, the reference density
\* gradients rho0a[1:4], rho0b[1:4] (component 1 unused) and the kernel.
PointSamples ==
  {[ao |-> o, weight |-> IF k.ud = 0 THEN 1 ELSE 2,
    rho0a |-> IF k.ud = 1 THEN <<0, 1, 1, 0>> ELSE <<0, 1, 0, 0>>,
    rho0b |-> IF k.ud = 1 THEN <<0, 1, 0, -1>> ELSE <<0, 0, 1, 0>>,
    fxc |-> k] : o \in AOSamples, k \in KernelSamples}

\* The batches block_loop can yield: one grid point, or two.
GridBatches ==
  {<<pt>> : pt \in PointSamples}
  \cup {<<pt, qt>> : pt \in {x \in PointSamples : x.fxc.ud = 1},
                     qt \in {x \in PointSamples : x.fxc.ud = -1 /\ x.ao[1][2] = 0}}

\* mo = hstack((orbo, orbv)): the column order of the reordered orbitals.
MoOrder(ref) == Where(ref.mo_occ, 1) \o Where(ref.mo_occ, 0)

ABNocc(ref) == Len(Where(ref.mo_occ, 1))

ABNvir(ref) == Len(Where(ref.mo_occ, 0))

ABNov(ref) == ABNocc(ref) * ABNvir(ref)

\* nao: mo_coeff has 2*nao rows
ABNao(ref) == Len(ref.mo_coeff) \div 2

\* moa = mo[:nao], mob = mo[nao:]
Moa(ref) ==
  Tup([p \in 1..ABNao(ref) |-> Tup([k \in 1..Len(ref.mo_occ) |->
         ref.mo_coeff[p][MoOrder(ref)[k]]])])

Mob(ref) ==
  Tup([p \in 1..ABNao(ref) |-> Tup([k \in 1..Len(ref.mo_occ) |->
         ref.mo_coeff[ABNao(ref) + p][MoOrder(ref)[k]]])])

\* ao2mo.general(mol, [c1, c2, c3, c4], compact=False)[i, q, r, s]
Ao2moGeneral(eri, c1, c2, c3, c4, i, q, r, s) ==
  LET N == 1..Len(c1)
      Q == N \X N \X N \X N
  IN SumOver([t \in Q |->
                c1[t[1]][i] * c2[t[2]][q] * c3[t[3]][r] * c4[t[4]][s]
                  * eri[t[1]][t[2]][t[3]][t[4]]], Q)

\* add_hf_: eri_mo_aa[i, q, r, s]
EriMoAA(ref, i, q, r, s) ==
  Ao2moGeneral(ref.eri, Moa(ref), Moa(ref), Moa(ref), Moa(ref), i, q, r, s)
    + Ao2moGeneral(ref.eri, Mob(ref), Mob(ref), Mob(ref), Mob(ref), i, q, r, s)

\* add_hf_: eri_mo[i, q, r, s] after eri_mo += eri_mo_aa
EriMo(ref, i, q, r, s) ==
  Ao2moGeneral(ref.eri, Moa(ref), Moa(ref), Mob(ref), Mob(ref), i, q, r, s)
    + Ao2moGeneral(ref.eri, Mob(ref), Mob(ref), Moa(ref), Moa(ref), i, q, r, s)
    + EriMoAA(ref, i, q, r, s)

\* e_ia and a = diag(e_ia.ravel()), b = zeros_like(a)
OrbitalGapA(ref) ==
  LET occ == Where(ref.mo_occ, 1)
      vir == Where(ref.mo_occ, 0)
      nvir == Len(vir)
  IN Tup([p \in 1..ABNov(ref) |-> Tup([q \in 1..ABNov(ref) |->
       IF p = q THEN ref.mo_energy[vir[PairA(p, nvir)]]
                       - ref.mo_energy[occ[PairI(p, nvir)]]
       ELSE 0])])

ZeroLike(a) == Tup([p \in 1..Len(a) |-> Tup([q \in 1..Len(a[p]) |-> 0])])

\* add_hf_(a, b, hyb): the increments of a and of b
HfTermA(ref, hyb) ==
  LET nocc == ABNocc(ref)
      nvir == ABNvir(ref)
  IN Tup([p \in 1..ABNov(ref) |-> Tup([q \in 1..ABNov(ref) |->
       LET i == PairI(p, nvir)
           a == PairA(p, nvir)
           j == PairI(q, nvir)
           b == PairA(q, nvir)
       IN EriMo(ref, i, nocc + a, nocc + b, j)
            - EriMoAA(ref, i, j, nocc + b, nocc + a) * hyb])])

HfTermB(ref, hyb) ==
  LET nocc == ABNocc(ref)
      nvir == ABNvir(ref)
  IN Tup([p \in 1..ABNov(ref) |-> Tup([q \in 1..ABNov(ref) |->
       LET i == PairI(p, nvir)
           a == PairA(p, nvir)
           j == PairI(q, nvir)
           b == PairA(q, nvir)
       IN EriMo(ref, i, nocc + a, j, nocc + b)
            - EriMoAA(ref, j, nocc + a, i, nocc + b) * hyb])])

MatAdd(x, y) == Tup([p \in 1..Len(x) |-> Tup([q \in 1..Len(x[p]) |-> x[p][q] + y[p][q]])])

\* .conj() of a real array (get_ab asserts mo_coeff.dtype == numpy.double)
Conj(t) == t

\* get_mo_value on one component of ao at one grid point: ao[p] -> values of
\* the reordered orbitals; the caller slices [:nocc] and [nocc:].
MoValue(ao, mo) ==
  Tup([k \in 1..Len(mo[1]) |-> SumOver([p \in 1..Len(ao) |-> ao[p] * mo[p][k]],
                                       1..Len(ao))])

\* einsum('ria,rjb->iajb', w, rho) over the points r of a batch
ContractPoints(w, rho, nov) ==
  Tup([p \in 1..nov |-> Tup([q \in 1..nov |->
     SumOver([r \in 1..Len(w) |-> w[r][p] * rho[r][q]], 1..Len(w))])])

\* einsum('xria,xrjb->iajb', w, rho), w and rho indexed [r][x][pair]
ContractPointsComps(w, rho, nov) ==
  Tup([p \in 1..nov |-> Tup([q \in 1..nov |->
     SumOver([t \in (1..Len(w)) \X (1..4) |-> w[t[1]][t[2]][p] * rho[t[1]][t[2]][q]],
             (1..Len(w)) \X (1..4))])])

\* a.transpose(2,3,0,1)
PairTranspose(m) == Tup([p \in 1..Len(m) |-> Tup([q \in 1..Len(m) |-> m[q][p]])])

MatScale(m, c) == Tup([p \in 1..Len(m) |-> Tup([q \in 1..Len(m[p]) |-> m[p][q] * c])])

\* LDA, lines 190-194: rho_ov of one spin at each point of the batch
LdaRhoOv(batch, mo, nocc, nvir) ==
  Tup([r \in 1..Len(batch) |->
     LET v == MoValue(batch[r].ao[1], mo)
     IN Tup([p \in 1..(nocc * nvir) |->
               Conj(v[PairI(p, nvir)]) * v[nocc + PairA(p, nvir)]])])

\* LDA, lines 185-202: the increments of a and b from one batch
LdaBatch(ref, batch) ==
  LET nocc == ABNocc(ref)
      nvir == ABNvir(ref)
      nov == nocc * nvir
      rho_ov_a == LdaRhoOv(batch, Moa(ref), nocc, nvir)
      rho_ov_b == LdaRhoOv(batch, Mob(ref), nocc, nvir)
      rho_vo_a == Conj(rho_ov_a)
      rho_vo_b == Conj(rho_ov_b)
      w_ov_a == Tup([r \in 1..Len(batch) |-> Tup([p \in 1..nov |->
                  (batch[r].fxc.u_u * rho_ov_a[r][p] + batch[r].fxc.u_d * rho_ov_b[r][p])
                    * batch[r].weight])])
      w_ov_b == Tup([r \in 1..Len(batch) |-> Tup([p \in 1..nov |->
                  (batch[r].fxc.u_d * rho_ov_a[r][p] + batch[r].fxc.d_d * rho_ov_b[r][p])
                    * batch[r].weight])])
  IN [a |-> MatAdd(ContractPoints(w_ov_a, rho_vo_a, nov),
                   ContractPoints(w_ov_b, rho_vo_b, nov)),
      b |-> MatAdd(ContractPoints(w_ov_a, rho_ov_a, nov),
                   ContractPoints(w_ov_b, rho_ov_b, nov))]

\* GGA, lines 216-220: rho_ov of one spin, [r][x][pair]
GgaRhoOv(batch, mo, nocc, nvir) ==
  Tup([r \in 1..Len(batch) |->
     LET v == Tup([x \in 1..4 |-> MoValue(batch[r].ao[x], mo)])
     IN Tup([x \in 1..4 |-> Tup([p \in 1..(nocc * nvir) |->
          LET i == PairI(p, nvir)
              a == nocc + PairA(p, nvir)
          IN Conj(v[x][i]) * v[1][a]
               + (IF x \in GradComps THEN Conj(v[1][i]) * v[x][a] ELSE 0)])])])

\* einsum('xr,xria->ria', rho0[1:4], rho_ov[1:4]) at each point
GradDot(batch, which, rho_ov, nov) ==
  Tup([r \in 1..Len(batch) |-> Tup([p \in 1..nov |->
     SumOver([x \in GradComps |->
                (IF which = "a" THEN batch[r].rho0a[x] ELSE batch[r].rho0b[x])
                  * rho_ov[r][x][p]], GradComps)])])

\* w_ov[0], w_ov[1:] and w_ov *= weight of one GGA block, from the scalar
\* part w0, the gradient factors f_ov_a, f_ov_b and the term g * rho_ov[1:4]
GgaWov(batch, w0, f_ov_a, f_ov_b, g, rho_ov, nov) ==
  Tup([r \in 1..Len(batch) |-> Tup([x \in 1..4 |-> Tup([p \in 1..nov |->
     (IF x = 1 THEN w0[r][p]
      ELSE f_ov_a[r][p] * batch[r].rho0a[x] + f_ov_b[r][p] * batch[r].rho0b[x]
             + g[r] * rho_ov[r][x][p])
       * batch[r].weight])])])

\* rho_vo_b as the GGA branch builds it
GgaRhoVoB(rho_vo_a, rho_ov_b) == Conj(rho_vo_a)

\* GGA, lines 208-284: the increments of a and b from one batch
GgaBatch(ref, batch) ==
  LET nocc == ABNocc(ref)
      nvir == ABNvir(ref)
      nov == nocc * nvir
      R == 1..Len(batch)
      P == 1..nov
      k(r) == batch[r].fxc
      rho_ov_a == GgaRhoOv(batch, Moa(ref), nocc, nvir)
      rho_ov_b == GgaRhoOv(batch, Mob(ref), nocc, nvir)
      rho_vo_a == Conj(rho_ov_a)
      rho_vo_b == GgaRhoVoB(rho_vo_a, rho_ov_b)
      a0a1 == GradDot(batch, "a", rho_ov_a, nov)
      a0b1 == GradDot(batch, "a", rho_ov_b, nov)
      b0a1 == GradDot(batch, "b", rho_ov_a, nov)
      b0b1 == GradDot(batch, "b", rho_ov_b, nov)
      \* aaaa
      w0_aa == Tup([r \in R |-> Tup([p \in P |->
                 k(r).u_u * rho_ov_a[r][1][p] + 2 * k(r).u_uu * a0a1[r][p]
                   + k(r).u_ud * b0a1[r][p]])])
      fa_aa == Tup([r \in R |-> Tup([p \in P |->
                 4 * k(r).uu_uu * a0a1[r][p] + 2 * k(r).uu_ud * b0a1[r][p]
                   + 2 * k(r).u_uu * rho_ov_a[r][1][p]])])
      fb_aa == Tup([r \in R |-> Tup([p \in P |->
                 2 * k(r).uu_ud * a0a1[r][p] + k(r).ud_ud * b0a1[r][p]
                   + k(r).u_ud * rho_ov_a[r][1][p]])])
      w_aa == GgaWov(batch, w0_aa, fa_aa, fb_aa, [r \in R |-> 2 * k(r).uu], rho_ov_a, nov)
      \* bbbb
      w0_bb == Tup([r \in R |-> Tup([p \in P |->
                 k(r).d_d * rho_ov_b[r][1][p] + 2 * k(r).d_dd * b0b1[r][p]
                   + k(r).d_ud * a0b1[r][p]])])
      fb_bb == Tup([r \in R |-> Tup([p \in P |->
                 4 * k(r).dd_dd * b0b1[r][p] + 2 * k(r).ud_dd * a0b1[r][p]
                   + 2 * k(r).d_dd * rho_ov_b[r][1][p]])])
      fa_bb == Tup([r \in R |-> Tup([p \in P |->
                 2 * k(r).ud_dd * b0b1[r][p] + k(r).ud_ud * a0b1[r][p]
                   + k(r).d_ud * rho_ov_b[r][1][p]])])
      w_bb == GgaWov(batch, w0_bb, fa_bb, fb_bb, [r \in R |-> 2 * k(r).dd], rho_ov_b, nov)
      \* aabb and bbaa
      w0_ab == Tup([r \in R |-> Tup([p \in P |->
                 k(r).u_d * rho_ov_b[r][1][p] + 2 * k(r).u_dd * b0b1[r][p]
                   + k(r).u_ud * a0b1[r][p]])])
      fa_ab == Tup([r \in R |-> Tup([p \in P |->
                 4 * k(r).uu_dd * b0b1[r][p] + 2 * k(r).uu_ud * a0b1[r][p]
                   + 2 * k(r).d_uu * rho_ov_b[r][1][p]])])
      fb_ab == Tup([r \in R |-> Tup([p \in P |->
                 2 * k(r).ud_dd * b0b1[r][p] + k(r).ud_ud * a0b1[r][p]
                   + k(r).d_ud * rho_ov_b[r][1][p]])])
      w_ab == GgaWov(batch, w0_ab, fa_ab, fb_ab, [r \in R |-> k(r).ud], rho_ov_b, nov)
      a_iajb == ContractPointsComps(w_ab, rho_vo_a, nov)
      b_iajb == ContractPointsComps(w_ab, rho_ov_a, nov)
  IN [a |-> MatAdd(MatAdd(ContractPointsComps(w_aa, rho_vo_a, nov),
                          ContractPointsComps(w_bb, rho_vo_b, nov)),
                   MatAdd(a_iajb, PairTranspose(Conj(a_iajb)))),
      b |-> MatAdd(MatAdd(ContractPointsComps(w_aa, rho_ov_a, nov),
                          ContractPointsComps(w_bb, rho_ov_b, nov)),
                   MatScale(b_iajb, 2))]

ABInit ==
  /\ ab \in {[pc |-> "start", ref |-> r, fn |-> f, a |-> <<>>, b |-> <<>>,
              nbatch |-> 0, err |-> "none"] : r \in ABReferences, f \in ABFunctionals}
  /\ guess = Idle /\ pk = Idle /\ op = Idle /\ kn = Idle

\* lines 114-136: a starts as the orbital-gap diagonal, b as zero
ABSetup ==
  /\ ab.pc = "start"
  /\ ab' = [ab EXCEPT !.pc = IF ab.fn.ks THEN "ks_checks" ELSE "hf",
                      !.a = OrbitalGapA(ab.ref), !.b = ZeroLike(OrbitalGapA(ab.ref))]
  /\ UNCHANGED <<guess, pk, op, kn>>

\* lines 293-296: not a Kohn-Sham object: add_hf_(a, b) and return
ABHartreeFock ==
  /\ ab.pc = "hf"
  /\ ab' = [ab EXCEPT !.pc = "returned",
                      !.a = MatAdd(ab.a, HfTermA(ab.ref, 1)),
                      !.b = MatAdd(ab.b, HfTermB(ab.ref, 1))]
  /\ UNCHANGED <<guess, pk, op, kn>>

\* lines 153-158: test_deriv_order(raise_error=True), the nlc test and the
\* collinear test raise before anything is added
ABKsReject ==
  /\ ab.pc = "ks_checks"
  /\ ~ab.fn.deriv2 \/ ab.fn.nlc # "" \/ ~ab.fn.collinear
  /\ ab' = [ab EXCEPT !.pc = "raised", !.err = "NotImplementedError"]
  /\ UNCHANGED <<guess, pk, op, kn>>

\* lines 160-164: add_hf_(a, b, hyb), then the family is looked up
ABKsAddHf ==
  /\ ab.pc = "ks_checks"
  /\ ab.fn.deriv2 /\ ab.fn.nlc = "" /\ ab.fn.collinear
  /\ ab' = [ab EXCEPT !.pc = "dispatch",
                      !.a = MatAdd(ab.a, HfTermA(ab.ref, ab.fn.hyb)),
                      !.b = MatAdd(ab.b, HfTermB(ab.ref, ab.fn.hyb))]
  /\ UNCHANGED <<guess, pk, op, kn>>

\* lines 181-184, 204-207: LDA and GGA enter the loop over block_loop
ABEnterLoop ==
  /\ ab.pc = "dispatch" /\ ab.fn.xctype \in {"LDA", "GGA"}
  /\ ab' = [ab EXCEPT !.pc = "loop"]
  /\ UNCHANGED <<guess, pk, op, kn>>

\* lines 286-287, 296: the HF family adds nothing and returns
ABFamilyHF ==
  /\ ab.pc = "dispatch" /\ ab.fn.xctype = "HF"
  /\ ab' = [ab EXCEPT !.pc = "returned"]
  /\ UNCHANGED <<guess, pk, op, kn>>

\* An unsupported family that falls through to the return instead of raising.
ABFamilyUnsupportedSilent ==
  /\ ab.pc = "dispatch" /\ ab.fn.xctype \in {"NLC", "MGGA"}
  /\ ab' = [ab EXCEPT !.pc = "returned"]
  /\ UNCHANGED <<guess, pk, op, kn>>

\* lines 288-291: NLC and meta-GGA raise
ABFamilyUnsupported ==
  /\ ab.pc = "dispatch" /\ ab.fn.xctype \in {"NLC", "MGGA"}
  /\ ab' = [ab EXCEPT !.pc = "raised", !.err = "NotImplementedError"]
  /\ UNCHANGED <<guess, pk, op, kn>>

\* lines 183-202: one batch of the LDA loop
ABLdaBatch ==
  /\ ab.pc = "loop" /\ ab.fn.xctype = "LDA" /\ ab.nbatch < MaxGridBatches
  /\ \E batch \in GridBatches :
       LET d == LdaBatch(ab.ref, batch)
       IN ab' = [ab EXCEPT !.a = MatAdd(ab.a, d.a), !.b = MatAdd(ab.b, d.b),
                           !.nbatch = ab.nbatch + 1]
  /\ UNCHANGED <<guess, pk, op, kn>>

\* lines 206-284: one batch of the GGA loop
ABGgaBatch ==
  /\ ab.pc = "loop" /\ ab.fn.xctype = "GGA" /\ ab.nbatch < MaxGridBatches
  /\ \E batch \in GridBatches :
       LET d == GgaBatch(ab.ref, batch)
       IN ab' = [ab EXCEPT !.a = MatAdd(ab.a, d.a), !.b = MatAdd(ab.b, d.b),
                           !.nbatch = ab.nbatch + 1]
  /\ UNCHANGED <<guess, pk, op, kn>>

\* the grid iterator is exhausted; line 296 returns a, b
ABLoopEnd ==
  /\ ab.pc = "loop"
  /\ ab' = [ab EXCEPT !.pc = "returned"]
  /\ UNCHANGED <<guess, pk, op, kn>>

ABNext ==
  \/ ABSetup \/ ABHartreeFock \/ ABKsReject \/ ABKsAddHf \/ ABEnterLoop
  \/ ABFamilyHF \/ ABFamilyUnsupported \/ ABLdaBatch \/ ABGgaBatch \/ ABLoopEnd

SpecAB == ABInit /\ [][ABNext]_vars

(* Claims about get_ab.                                                     *)

IsPairHermitian(m) == \A p, q \in 1..Len(m) : m[p][q] = Conj(m[q][p])

IsPairSymmetric(m) == \A p, q \in 1..Len(m) : m[p][q] = m[q][p]

\* get_ab is in, or has returned from, the branch of an accepted family
ABAccepted(families) ==
  /\ ab.pc \in {"loop", "returned"}
  /\ (IF ab.fn.ks THEN ab.fn.xctype ELSE "HF") \in families

\* C2: for the Hartree-Fock, LDA and GGA families, after any number of
\* accumulated batches, A[i,a,j,b] = conj(A[j,b,i,a]) and
\* B[i,a,j,b] = B[j,b,i,a].
C2_ABSymmetric ==
  ABAccepted({"HF", "LDA", "GGA"}) => IsPairHermitian(ab.a) /\ IsPairSymmetric(ab.b)

\* The same for Hartree-Fock and LDA alone (holds).
ABSymmetricHfLda ==
  ABAccepted({"HF", "LDA"}) => IsPairHermitian(ab.a) /\ IsPairSymmetric(ab.b)

ABUnsupported ==
  ab.fn.ks /\ (ab.fn.xctype \in {"NLC", "MGGA"} \/ ab.fn.nlc # "")

\* C9: a Kohn-Sham reference of the NLC or meta-GGA family, or with a
\* non-empty nlc setting, never returns (A, B) and never requests a
\* quadrature batch: it is before the tests, at them (where a non-empty nlc
\* raises), at the family dispatch (where the raise is the step to take) or
\* has raised NotImplementedError; a
\* Hartree-Fock-only family returns the orbital-gap diagonal plus the
\* two-electron term of add_hf_ and nothing else, with no batch requested.
C9_UnsupportedFailsFast ==
  /\ ABUnsupported =>
       /\ ab.pc \notin {"loop", "returned"}
       /\ ab.nbatch = 0
       /\ ab.pc \in {"start", "ks_checks", "dispatch", "raised"}
       /\ ab.pc = "raised" => ab.err = "NotImplementedError"
       /\ ab.pc = "dispatch" => ENABLED ABFamilyUnsupported
       /\ (ab.pc = "ks_checks" /\ ab.fn.nlc # "") => ENABLED ABKsReject
  /\ (ab.pc = "returned" /\ (~ab.fn.ks \/ ab.fn.xctype = "HF")) =>
       /\ ab.nbatch = 0
       /\ ab.a = MatAdd(OrbitalGapA(ab.ref),
                        HfTermA(ab.ref, IF ab.fn.ks THEN ab.fn.hyb ELSE 1))
       /\ ab.b = HfTermB(ab.ref, IF ab.fn.ks THEN ab.fn.hyb ELSE 1)

\* C9 witness: a meta-GGA or NLC family that passed the earlier tests has
\* raised at the family dispatch, after add_hf_ and with no batch requested.
C9_Witness ==
  /\ ab.pc = "raised" /\ ab.fn.ks /\ ab.fn.xctype \in {"NLC", "MGGA"}
  /\ ab.fn.nlc = "" /\ ab.fn.deriv2 /\ ab.fn.collinear
  /\ ab.a # OrbitalGapA(ab.ref) /\ ab.nbatch = 0

---------------------------------------------------------------------------
(* Response operators: gen_tda_operation and gen_tdhf_operation.            *)
(*                                                                         *)
(* Matrices are tuples of rows.  A trial vector is the flat sequence the   *)
(* eigensolver hands over; vind reshapes it to (nocc, nvir), or to         *)
(* (2, nocc, nvir) for the paired operator.                                *)

\* Largest number of trial vectors in one call of vind.
MaxBatch == 2

MatMul(x, y) ==
  Tup([r \in 1..Len(x) |->
         Tup([c \in 1..Len(y[1]) |-> SumOver([k \in 1..Len(y) |-> x[r][k] * y[k][c]], 1..Len(y))])])

Transpose(x) == Tup([r \in 1..Len(x[1]) |->
         Tup([c \in 1..Len(x) |-> x[c][r]])])

MatSub(x, y) == Tup([r \in 1..Len(x) |->
         Tup([c \in 1..Len(x[1]) |-> x[r][c] - y[r][c]])])

MatNeg(x) == Tup([r \in 1..Len(x) |->
         Tup([c \in 1..Len(x[1]) |-> -x[r][c]])])

ZeroMat(n, m) == Tup([r \in 1..n |->
         Tup([c \in 1..m |-> 0])])

\* numpy.diag(v)
Diag(v) == Tup([r \in 1..Len(v) |->
         Tup([c \in 1..Len(v) |-> IF r = c THEN v[r] ELSE 0])])

\* m[:, idx]
Columns(m, idx) == Tup([r \in 1..Len(m) |->
         Tup([c \in 1..Len(idx) |-> m[r][idx[c]]])])

\* m[idx[:,None], idx]
Block(m, idx) == Tup([r \in 1..Len(idx) |->
         Tup([c \in 1..Len(idx) |-> m[idx[r]][idx[c]]])])

\* reshape(nocc, nvir) of a flat vector, and back
Unflatten(flat, nocc, nvir) == Tup([o \in 1..nocc |->
         Tup([v \in 1..nvir |-> flat[(o - 1) * nvir + v]])])

Flatten(z) ==
  Tup([p \in 1..(Len(z) * Len(z[1])) |-> z[PairI(p, Len(z[1]))][PairA(p, Len(z[1]))]])

\* References of the operator builders: three orbitals over three basis
\* functions, one or two of them occupied.
OpReferences ==
  {[mo_coeff |-> c, mo_occ |-> o, mo_energy |-> <<-2, -1, 3>>, orbsym |-> <<0, 1, 10>>] :
     c \in {<<<<1, 0, 0>>, <<0, 1, 0>>, <<0, 0, 1>>>>,
            <<<<1, 1, 0>>, <<1, -1, 1>>, <<0, 1, 1>>>>},
     o \in {<<1, 0, 0>>, <<1, 1, 0>>}}

\* fock_ao: not given, or a symmetric matrix in the basis-function basis.
NoFock == [given |-> FALSE, m |-> <<>>]

FockSamples == {NoFock, [given |-> TRUE, m |-> <<<<1, 2, 0>>, <<2, -1, 1>>, <<0, 1, 3>>>>]}

\* (wfnsym, mol.symmetry)
OpSymmetries ==
  {[wfnsym |-> NoSym, symmetry |-> TRUE],
   [wfnsym |-> [given |-> TRUE, id |-> 0], symmetry |-> TRUE],
   [wfnsym |-> [given |-> TRUE, id |-> 11], symmetry |-> TRUE],
   [wfnsym |-> [given |-> TRUE, id |-> 11], symmetry |-> FALSE]}

\* The density-response collaborator mf.gen_response(hermi=0): linear maps
\* of one density matrix.
VrespKinds == {"zero", "same", "mixing"}

VrespOne(kind, d) ==
  CASE kind = "zero" -> ZeroMat(Len(d), Len(d))
    [] kind = "same" -> d
    [] kind = "mixing" ->
         Tup([r \in 1..Len(d) |->
         Tup([c \in 1..Len(d) |->
                2 * d[c][r] + (IF r < c THEN 1 ELSE 0)
                  * SumOver([k \in 1..Len(d) |-> d[k][k]], 1..Len(d))])])

\* vresp(dms) on a batch of densities
Vresp(kind, dms) == Tup([x \in 1..Len(dms) |-> VrespOne(kind, dms[x])])

\* Trial vectors of the TDA operator (length nov = 2) and of the paired
\* operator (X then Y, length 2*nov = 4).
TdaTrials == {<<x, y>> : x \in {-1, 0, 1}, y \in {0, 1}}

RpaTrials ==
  {X \o Y : X \in {<<0, 0>>, <<1, 0>>, <<-1, 1>>},
            Y \in {<<0, 0>>, <<0, 1>>, <<1, 0>>}}

Batches(trials) == UNION {[1..n -> trials] : n \in 1..MaxBatch}

\* zs[:,sym_forbid] = 0 on one (nocc, nvir) block; forbid is the flat mask
ZeroForbidden(z, forbid) ==
  Tup([o \in 1..Len(z) |->
         Tup([v \in 1..Len(z[1]) |-> IF forbid[(o - 1) * Len(z[1]) + v] THEN 0 ELSE z[o][v]])])

\* lines 52-88 and 418-452: what the builders compute and vind closes over
BuildOperator(kind, mf, fock_ao, wfnsym, symmetry) ==
  LET occidx == Where(mf.mo_occ, 1)
      viridx == Where(mf.mo_occ, 0)
      nocc == Len(occidx)
      nvir == Len(viridx)
      active == wfnsym.given /\ symmetry
      forbid == IF active THEN SymForbid(mf.orbsym, occidx, viridx, wfnsym.id)
                ELSE [p \in 1..(nocc * nvir) |-> FALSE]
      usefock == kind = "TDA" /\ fock_ao.given
      fock == MatMul(MatMul(Transpose(Conj(mf.mo_coeff)), fock_ao.m), mf.mo_coeff)
      foo == IF usefock THEN Block(fock, occidx)
             ELSE Diag([o \in 1..nocc |-> mf.mo_energy[occidx[o]]])
      fvv == IF usefock THEN Block(fock, viridx)
             ELSE Diag([v \in 1..nvir |-> mf.mo_energy[viridx[v]]])
      hd == Tup([p \in 1..(nocc * nvir) |->
                   IF forbid[p] THEN 0
                   ELSE fvv[PairA(p, nvir)][PairA(p, nvir)]
                          - foo[PairI(p, nvir)][PairI(p, nvir)]])
  IN [nocc |-> nocc, nvir |-> nvir, active |-> active, forbid |-> Tup(forbid),
      orbo |-> Columns(mf.mo_coeff, occidx), orbv |-> Columns(mf.mo_coeff, viridx),
      foo |-> foo, fvv |-> fvv,
      hdiag |-> IF kind = "TDA" THEN hd ELSE hd \o Tup([p \in 1..Len(hd) |-> -hd[p]])]

\* einsum('xqs,sp->xqp', zs, fvv) on one block
FvvTerm(z, fvv) ==
  Tup([q \in 1..Len(z) |->
         Tup([p \in 1..Len(fvv) |->
                SumOver([t \in 1..Len(fvv) |-> z[q][t] * fvv[t][p]], 1..Len(fvv))])])

\* The occupied-block term with only the diagonal of foo.
FooTermDiagonal(z, foo) == Tup([t \in 1..Len(foo) |->
         Tup([r \in 1..Len(z[1]) |-> z[t][r] * foo[t][t]])])

\* einsum('xpr,sp->xsr', zs, foo) on one block
FooTerm(z, foo) ==
  Tup([t \in 1..Len(foo) |->
         Tup([r \in 1..Len(z[1]) |->
                SumOver([p \in 1..Len(foo) |-> z[p][r] * foo[t][p]], 1..Len(foo))])])

\* einsum('xov,qv,po->xpq', zs, orbv.conj(), orbo) on one block
DensityOV(z, orbo, orbv) ==
  Tup([p \in 1..Len(orbo) |->
         Tup([q \in 1..Len(orbv) |->
                SumOver([t \in (1..Len(z)) \X (1..Len(z[1])) |->
                           z[t[1]][t[2]] * Conj(orbv[q][t[2]]) * orbo[p][t[1]]],
                        (1..Len(z)) \X (1..Len(z[1])))])])

\* einsum('xov,pv,qo->xpq', ys, orbv, orbo.conj()) on one block
DensityVO(y, orbo, orbv) ==
  Tup([p \in 1..Len(orbv) |->
         Tup([q \in 1..Len(orbo) |->
                SumOver([t \in (1..Len(y)) \X (1..Len(y[1])) |->
                           y[t[1]][t[2]] * orbv[p][t[2]] * Conj(orbo[q][t[1]])],
                        (1..Len(y)) \X (1..Len(y[1])))])])

\* einsum('xpq,qv,po->xov', v1ao, orbv, orbo.conj()) on one block (the
\* same contraction as 'xpq,po,qv->xov' of line 467)
ProjectOV(v1ao, orbo, orbv) ==
  Tup([o \in 1..Len(orbo[1]) |->
         Tup([v \in 1..Len(orbv[1]) |->
                SumOver([t \in (1..Len(v1ao)) \X (1..Len(v1ao)) |->
                           v1ao[t[1]][t[2]] * orbv[t[2]][v] * Conj(orbo[t[1]][o])],
                        (1..Len(v1ao)) \X (1..Len(v1ao)))])])

\* The second projection contracted like the first one.
ProjectVOUntransposed(v1ao, orbo, orbv) == ProjectOV(v1ao, orbo, orbv)

\* einsum('xpq,qo,pv->xov', v1ao, orbo, orbv.conj()) on one block
ProjectVO(v1ao, orbo, orbv) ==
  Tup([o \in 1..Len(orbo[1]) |->
         Tup([v \in 1..Len(orbv[1]) |->
                SumOver([t \in (1..Len(v1ao)) \X (1..Len(v1ao)) |->
                           v1ao[t[1]][t[2]] * orbo[t[2]][o] * Conj(orbv[t[1]][v])],
                        (1..Len(v1ao)) \X (1..Len(v1ao)))])])

\* The reshaped input used as it is.
KeepInput(z, b) == z

\* The caller's trial vectors written where the forbidden entries are
\* zeroed: what the caller holds if vind zeroes them in its argument.
ZeroedInPlace(zs0, b) ==
  IF b.active
  THEN Tup([x \in 1..Len(zs0) |->
              Tup([p \in 1..Len(zs0[x]) |->
                     IF b.forbid[((p - 1) % (b.nocc * b.nvir)) + 1] THEN 0 ELSE zs0[x][p]])])
  ELSE zs0

\* The caller's trial vectors when vind has returned: asarray/reshape give a
\* view that is only read, and the forbidden entries are zeroed in a
\* numpy.copy of it (lines 92-94, 456-459), so no entry is written.
CallerArrayAfter(zs0, b) == zs0

\* The input projection of vind: a copy with the forbidden pairs zeroed when
\* the symmetry filter is active, the reshaped input itself otherwise.
MaskInput(z, b) == IF b.active THEN ZeroForbidden(z, b.forbid) ELSE z

\* The output projection of vind.
MaskOutput(z, b) == IF b.active THEN ZeroForbidden(z, b.forbid) ELSE z

\* gen_tda_operation / vind: the densities handed to vresp and the result
TdaVind(b, vresp, zs0) ==
  LET zs == Tup([x \in 1..Len(zs0) |->
                   MaskInput(Unflatten(zs0[x], b.nocc, b.nvir), b)])
      dmov == Tup([x \in 1..Len(zs) |-> DensityOV(zs[x], b.orbo, b.orbv)])
      v1ao == Vresp(vresp, dmov)
      v1ov == Tup([x \in 1..Len(zs) |->
                MaskOutput(MatSub(MatAdd(ProjectOV(v1ao[x], b.orbo, b.orbv),
                                         FvvTerm(zs[x], b.fvv)),
                                  FooTerm(zs[x], b.foo)), b)])
  IN [vresp_log |-> <<dmov>>, zs_after |-> CallerArrayAfter(zs0, b),
      out |-> Tup([x \in 1..Len(zs) |-> Flatten(v1ov[x])])]

\* gen_tdhf_operation / vind
RpaVind(b, vresp, xys0) ==
  LET nov == b.nocc * b.nvir
      xs == Tup([x \in 1..Len(xys0) |->
                   MaskInput(Unflatten(SubSeq(xys0[x], 1, nov), b.nocc, b.nvir), b)])
      ys == Tup([x \in 1..Len(xys0) |->
                   MaskInput(Unflatten(SubSeq(xys0[x], nov + 1, 2 * nov), b.nocc, b.nvir), b)])
      dms == Tup([x \in 1..Len(xs) |->
                    MatAdd(DensityOV(xs[x], b.orbo, b.orbv),
                           DensityVO(ys[x], b.orbo, b.orbv))])
      v1ao == Vresp(vresp, dms)
      v1ov == Tup([x \in 1..Len(xs) |->
                MaskOutput(MatSub(MatAdd(ProjectOV(v1ao[x], b.orbo, b.orbv),
                                         FvvTerm(xs[x], b.fvv)),
                                  FooTerm(xs[x], b.foo)), b)])
      v1vo == Tup([x \in 1..Len(xs) |->
                MaskOutput(MatSub(MatAdd(ProjectVO(v1ao[x], b.orbo, b.orbv),
                                         FvvTerm(ys[x], b.fvv)),
                                  FooTerm(ys[x], b.foo)), b)])
  IN [vresp_log |-> <<dms>>, zs_after |-> CallerArrayAfter(xys0, b),
      out |-> Tup([x \in 1..Len(xs) |-> Flatten(v1ov[x]) \o Flatten(MatNeg(v1vo[x]))])]

Vind(kind, b, vresp, zs) ==
  IF kind = "TDA" THEN TdaVind(b, vresp, zs) ELSE RpaVind(b, vresp, zs)

NoCall == [zs |-> <<>>, zs_after |-> <<>>, vresp_log |-> <<>>, out |-> <<>>, again |-> <<>>]

OpInit ==
  /\ op \in {[pc |-> "new", kind |-> "TDA", mf |-> r, fock_ao |-> f, sym |-> y,
              vresp |-> v, built |-> <<>>, call |-> NoCall] :
               r \in OpReferences, f \in FockSamples, y \in OpSymmetries, v \in VrespKinds}
            \cup
            {[pc |-> "new", kind |-> "RPA", mf |-> r, fock_ao |-> NoFock, sym |-> y,
              vresp |-> v, built |-> <<>>, call |-> NoCall] :
               r \in OpReferences, y \in OpSymmetries, v \in VrespKinds}
  /\ guess = Idle /\ ab = Idle /\ pk = Idle /\ kn = Idle

\* gen_tda_operation(mf, fock_ao, wfnsym) returns (vind, hdiag)
GenTdaOperation ==
  /\ op.pc = "new" /\ op.kind = "TDA"
  /\ op' = [op EXCEPT !.pc = "ready",
              !.built = BuildOperator("TDA", op.mf, op.fock_ao, op.sym.wfnsym,
                                      op.sym.symmetry)]
  /\ UNCHANGED <<guess, ab, pk, kn>>

\* gen_tdhf_operation(mf, wfnsym=wfnsym) returns (vind, hdiag)
GenTdhfOperation ==
  /\ op.pc = "new" /\ op.kind = "RPA"
  /\ op' = [op EXCEPT !.pc = "ready",
              !.built = BuildOperator("RPA", op.mf, op.fock_ao, op.sym.wfnsym,
                                      op.sym.symmetry)]
  /\ UNCHANGED <<guess, ab, pk, kn>>

\* one call vind(zs) of the TDA operator
ApplyTda ==
  /\ op.pc = "ready" /\ op.kind = "TDA"
  /\ \E zs \in Batches(TdaTrials) :
       LET r == TdaVind(op.built, op.vresp, zs)
       IN op' = [op EXCEPT !.pc = "applied",
                   !.call = [zs |-> zs, zs_after |-> r.zs_after,
                             vresp_log |-> r.vresp_log, out |-> r.out, again |-> <<>>]]
  /\ UNCHANGED <<guess, ab, pk, kn>>

\* one call vind(xys) of the paired operator
ApplyRpa ==
  /\ op.pc = "ready" /\ op.kind = "RPA"
  /\ \E zs \in Batches(RpaTrials) :
       LET r == RpaVind(op.built, op.vresp, zs)
       IN op' = [op EXCEPT !.pc = "applied",
                   !.call = [zs |-> zs, zs_after |-> r.zs_after,
                             vresp_log |-> r.vresp_log, out |-> r.out, again |-> <<>>]]
  /\ UNCHANGED <<guess, ab, pk, kn>>

\* the caller calls vind a second time on the array it passed before
ApplyAgain ==
  /\ op.pc = "applied"
  /\ op' = [op EXCEPT !.pc = "repeated",
              !.call.again = Vind(op.kind, op.built, op.vresp, op.call.zs_after).out]
  /\ UNCHANGED <<guess, ab, pk, kn>>

\* the caller has taken the result; the operator can be applied again
TakeResult ==
  /\ op.pc \in {"applied", "repeated"}
  /\ op' = [op EXCEPT !.pc = "ready", !.call = NoCall]
  /\ UNCHANGED <<guess, ab, pk, kn>>

OpNext ==
  \/ GenTdaOperation \/ GenTdhfOperation
  \/ ApplyTda \/ ApplyRpa \/ ApplyAgain \/ TakeResult

SpecOp == OpInit /\ [][OpNext]_vars

(* Claims about the response operators.                                    *)

OpApplied(kind) == op.pc = "applied" /\ op.kind = kind

OpFiltered == op.sym.wfnsym.given /\ op.sym.symmetry

\* foo and fvv as stated: orbital-energy diagonals, or the blocks of the
\* Fock matrix in the orbital basis when fock_ao is given to the TDA builder
OpOccIdx == Where(op.mf.mo_occ, 1)

OpVirIdx == Where(op.mf.mo_occ, 0)

OpFockMO == MatMul(MatMul(Transpose(op.mf.mo_coeff), op.fock_ao.m), op.mf.mo_coeff)

StatedFoo ==
  IF op.kind = "TDA" /\ op.fock_ao.given THEN Block(OpFockMO, OpOccIdx)
  ELSE Diag([o \in 1..Len(OpOccIdx) |-> op.mf.mo_energy[OpOccIdx[o]]])

StatedFvv ==
  IF op.kind = "TDA" /\ op.fock_ao.given THEN Block(OpFockMO, OpVirIdx)
  ELSE Diag([v \in 1..Len(OpVirIdx) |-> op.mf.mo_energy[OpVirIdx[v]]])

\* Z.fvv - foo.Z
OrbitalPart(z) == MatSub(MatMul(z, StatedFvv), MatMul(StatedFoo, z))

OpNov == Len(OpOccIdx) * Len(OpVirIdx)

InputX(x) == Unflatten(SubSeq(op.call.zs[x], 1, OpNov), Len(OpOccIdx), Len(OpVirIdx))

InputY(x) ==
  Unflatten(SubSeq(op.call.zs[x], OpNov + 1, 2 * OpNov), Len(OpOccIdx), Len(OpVirIdx))

\* C5: the TDA operator with a zero density response and no symmetry
\* filter returns Z.fvv - foo.Z for every block of the batch, flattened to
\* batch x (nocc*nvir); foo and fvv are the orbital-energy diagonals, or
\* the occ-occ and vir-vir blocks of the supplied Fock matrix.
C5_TdaZeroResponse ==
  (OpApplied("TDA") /\ op.vresp = "zero" /\ ~OpFiltered) =>
    /\ Len(op.call.out) = Len(op.call.zs)
    /\ \A x \in 1..Len(op.call.zs) :
         /\ Len(op.call.out[x]) = OpNov
         /\ op.call.out[x] = Flatten(OrbitalPart(InputX(x)))

C5_Witness ==
  /\ OpApplied("TDA") /\ op.vresp = "zero" /\ ~OpFiltered
  /\ op.fock_ao.given /\ Len(OpOccIdx) = 2
  /\ StatedFoo[1][2] # 0
  /\ Len(op.call.zs) = 2
  /\ \A x \in 1..2 : \A p \in 1..OpNov : op.call.out[x][p] # 0

\* the two halves of one output row
OutHalves(row) == <<SubSeq(row, 1, OpNov), SubSeq(row, OpNov + 1, Len(row))>>

OutBlocks(row) == IF op.kind = "TDA" THEN <<row>> ELSE OutHalves(row)

\* the input with its values at forbidden pairs replaced by zero: every
\* input that agrees with zs on the allowed pairs has this same image
ClearedAtForbidden(zs) ==
  Tup([x \in 1..Len(zs) |->
         Tup([p \in 1..Len(zs[x]) |->
                IF op.built.forbid[((p - 1) % OpNov) + 1] THEN 0 ELSE zs[x][p]])])

OnlyAtForbidden(zs) ==
  \A x \in 1..Len(zs) : \A p \in 1..Len(zs[x]) :
    op.built.forbid[((p - 1) % OpNov) + 1] \/ zs[x][p] = 0

\* C6: with a symmetry target on a reference that carries symmetry, the
\* output of apply (the TDA operator and both halves of the RPA operator)
\* is zero at every forbidden pair, does not depend on the input's values
\* at forbidden pairs, and is the zero vector for an input that is nonzero
\* only at forbidden pairs.
C6_SymmetryProjection ==
  (op.pc = "applied" /\ OpFiltered) =>
    /\ op.built.forbid = Tup(SymForbid(op.mf.orbsym, OpOccIdx, OpVirIdx, op.sym.wfnsym.id))
    /\ \A x \in 1..Len(op.call.out) :
         \A h \in 1..Len(OutBlocks(op.call.out[x])) : \A p \in 1..OpNov :
           op.built.forbid[p] => OutBlocks(op.call.out[x])[h][p] = 0
    /\ Vind(op.kind, op.built, op.vresp, ClearedAtForbidden(op.call.zs)).out = op.call.out
    /\ OnlyAtForbidden(op.call.zs) =>
         \A x \in 1..Len(op.call.out) : \A p \in 1..Len(op.call.out[x]) :
           op.call.out[x][p] = 0

\* A filtered RPA call whose input is nonzero at a forbidden pair in both
\* halves and whose output is not zero.
C6_Witness ==
  /\ OpApplied("RPA") /\ OpFiltered /\ op.vresp = "mixing"
  /\ \E p \in 1..OpNov :
       /\ op.built.forbid[p]
       /\ op.call.zs[1][p] # 0 /\ op.call.zs[1][OpNov + p] # 0
  /\ \E p \in 1..OpNov : ~op.built.forbid[p] /\ op.call.out[1][p] # 0
  /\ \E p \in 1..OpNov : ~op.built.forbid[p] /\ op.call.out[1][OpNov + p] # 0

\* Co.X.Cv^T + Cv.Y^T.Co^T
StatedDensity(x) ==
  MatAdd(MatMul(MatMul(op.built.orbo, InputX(x)), Transpose(op.built.orbv)),
         MatMul(MatMul(op.built.orbv, Transpose(InputY(x))), Transpose(op.built.orbo)))

\* occupied->virtual projection Co^T.V.Cv
StatedProjOV(v) == MatMul(MatMul(Transpose(op.built.orbo), v), op.built.orbv)

\* virtual->occupied projection (Cv^T.V.Co)^T
StatedProjVO(v) == Transpose(MatMul(MatMul(Transpose(op.built.orbv), v), op.built.orbo))

OpBuilt == op.pc \in {"ready", "applied", "repeated"}

\* one step leaves the mean-field state and what the operator captured alone
OpFrameStep ==
  OpBuilt =>
    /\ op'.mf = op.mf
    /\ op'.fock_ao = op.fock_ao /\ op'.sym = op.sym
    /\ op'.built.hdiag = op.built.hdiag
    /\ op'.built.foo = op.built.foo /\ op'.built.fvv = op.built.fvv
    /\ op'.built = op.built
    /\ op'.pc = "repeated" => op'.call.zs = op.call.zs /\ op'.call.out = op.call.out

---------------------------------------------------------------------------
(* The solve entry points TDA.kernel and TDHF.kernel.                       *)
(*                                                                         *)
(* The eigensolver (lib.davidson1, lib.davidson_nosym1) is a collaborator: *)
(* it returns per-root converged flags, eigenvalues and root vectors that  *)
(* the model draws from small sets.  Root vectors are real.  A normalized  *)
(* amplitude is not an integer, so an entry of a TDHF pair is a record:    *)
(* "finite" stands for num / sqrt(den2), the other classes for the IEEE    *)
(* values the float64 arithmetic of norm_xy produces.                      *)

\* Largest number of roots a call requests.
MaxRoots == 2

KernelReferences ==
  {[mo_occ |-> o, mo_energy |-> <<-2, -1, 3>>, orbsym |-> <<0, 1, 10>>, symmetry |-> y] :
     o \in {<<1, 0, 0>>, <<1, 1, 0>>}, y \in BOOLEAN}

\* (self._scf.mo_occ>0).sum()
KernelNocc(mf) == CountPositive(mf.mo_occ)

KernelNvir(mf) == Len(mf.mo_occ) - KernelNocc(mf)

\* Root vectors of the TDA solver (length nov = 2) and of the TDHF solver
\* (X then Y): |X|^2 - |Y|^2 positive, zero with X # 0, zero with X = 0,
\* and negative.
TdaRoots == {<<1, 0>>, <<0, 1>>, <<3, -4>>}

TdhfRoots == {<<2, 0, 1, 0>>, <<1, -1, -1, 1>>, <<0, 0, 0, 0>>, <<0, 1, 1, 1>>}

\* Eigenvalues in units of 1e-6, ascending.
EigBases == {1500, 300000}

SolverResults(nroots, roots) ==
  UNION {{[conv |-> c, w |-> Tup([i \in 1..k |-> b + 1000 * i]), x1 |-> x] :
            c \in [1..k -> BOOLEAN], b \in EigBases, x \in [1..k -> roots]} :
         k \in 1..nroots}

NoResult == [conv |-> <<>>, w |-> <<>>, x1 |-> <<>>]

Finite(n, d) == [cls |-> "finite", num |-> n, den2 |-> d]

NonFinite(c) == [cls |-> c, num |-> 0, den2 |-> 0]

\* lib.norm(x)**2 - lib.norm(y)**2
XYNorm(z) ==
  LET nov == Len(z) \div 2
  IN SumOver([p \in 1..nov |-> z[p] * z[p]], 1..nov)
       - SumOver([p \in 1..nov |-> z[nov + p] * z[nov + p]], 1..nov)

\* v * numpy.sqrt(1./norm) in float64: 1./0. is inf, the square root of a
\* negative number is nan, 0 * inf is nan
ScaleBySqrtInverse(v, norm) ==
  IF norm > 0 THEN Finite(v, norm)
  ELSE IF norm < 0 THEN NonFinite("nan")
  ELSE IF v = 0 THEN NonFinite("nan")
  ELSE IF v > 0 THEN NonFinite("inf")
  ELSE NonFinite("-inf")

\* norm_xy(z), lines 536-540
norm_xy(z, nocc, nvir) ==
  LET nov == nocc * nvir
      norm == XYNorm(z)
      x == Unflatten(SubSeq(z, 1, nov), nocc, nvir)
      y == Unflatten(SubSeq(z, nov + 1, 2 * nov), nocc, nvir)
  IN <<Tup([o \in 1..nocc |->
         Tup([v \in 1..nvir |-> ScaleBySqrtInverse(x[o][v], norm)])]),
       Tup([o \in 1..nocc |->
         Tup([v \in 1..nvir |-> ScaleBySqrtInverse(y[o][v], norm)])])>>

KernelInit ==
  /\ kn \in {[pc |-> "call", method |-> m, mf |-> r, chkfile |-> c,
              x0_given |-> g, nstates_arg |-> a, nstates |-> n,
              solver |-> NoResult, converged |-> <<>>, e |-> <<>>, xy |-> <<>>,
              chk |-> <<>>, err |-> "none", ret |-> <<>>] :
               m \in {"TDA", "TDHF"}, r \in KernelReferences, c \in BOOLEAN,
               g \in BOOLEAN, a \in 0..MaxRoots, n \in 1..MaxRoots}
  /\ guess = Idle /\ ab = Idle /\ pk = Idle /\ op = Idle

\* lines 370-381 and 505-514: nstates_arg = 0 stands for nstates=None
KernelEnter ==
  /\ kn.pc = "call"
  /\ kn' = [kn EXCEPT !.nstates = IF kn.nstates_arg = 0 THEN kn.nstates ELSE kn.nstates_arg,
              !.pc = IF kn.x0_given THEN "solve" ELSE "guess"]
  /\ UNCHANGED <<guess, ab, pk, op>>

\* x0 = self.init_guess(self._scf, self.nstates); self.wfnsym is None
KernelInitGuess ==
  /\ kn.pc = "guess"
  /\ LET r == IF kn.method = "TDA" THEN TDA_init_guess(kn.mf, kn.nstates, NoSym)
              ELSE TDHF_init_guess(kn.mf, kn.nstates, NoSym)
     IN kn' = IF r.err # "none"
              THEN [kn EXCEPT !.pc = "raised", !.err = r.err]
              ELSE [kn EXCEPT !.pc = "solve"]
  /\ UNCHANGED <<guess, ab, pk, op>>

\* self.converged, self.e, x1 = lib.davidson1(...)
KernelSolveTDA ==
  /\ kn.pc = "solve" /\ kn.method = "TDA"
  /\ \E r \in SolverResults(kn.nstates, TdaRoots) :
       kn' = [kn EXCEPT !.pc = "amplitudes", !.solver = r,
                !.converged = r.conv, !.e = r.w]
  /\ UNCHANGED <<guess, ab, pk, op>>

\* self.converged, w, x1 = lib.davidson_nosym1(...)
KernelSolveTDHF ==
  /\ kn.pc = "solve" /\ kn.method = "TDHF"
  /\ \E r \in SolverResults(kn.nstates, TdhfRoots) :
       kn' = [kn EXCEPT !.pc = "amplitudes", !.solver = r, !.converged = r.conv]
  /\ UNCHANGED <<guess, ab, pk, op>>

\* self.xy = [(xi.reshape(nocc,nvir), 0) for xi in x1]
KernelAmplitudesTDA ==
  /\ kn.pc = "amplitudes" /\ kn.method = "TDA"
  /\ LET nocc == KernelNocc(kn.mf)
         nvir == KernelNvir(kn.mf)
     IN kn' = IF \E i \in 1..Len(kn.solver.x1) : Len(kn.solver.x1[i]) # nocc * nvir
              THEN [kn EXCEPT !.pc = "raised", !.err = "ValueError"]
              ELSE [kn EXCEPT !.pc = "save",
                      !.xy = Tup([i \in 1..Len(kn.solver.x1) |->
                                    <<Unflatten(kn.solver.x1[i], nocc, nvir), 0>>])]
  /\ UNCHANGED <<guess, ab, pk, op>>

\* self.e = w; self.xy = [norm_xy(z) for z in x1]
KernelAmplitudesTDHF ==
  /\ kn.pc = "amplitudes" /\ kn.method = "TDHF"
  /\ LET nocc == KernelNocc(kn.mf)
         nvir == KernelNvir(kn.mf)
     IN kn' = IF \E i \in 1..Len(kn.solver.x1) : Len(kn.solver.x1[i]) # 2 * nocc * nvir
              THEN [kn EXCEPT !.pc = "raised", !.err = "ValueError", !.e = kn.solver.w]
              ELSE [kn EXCEPT !.pc = "save", !.e = kn.solver.w,
                      !.xy = Tup([i \in 1..Len(kn.solver.x1) |->
                                    norm_xy(kn.solver.x1[i], nocc, nvir)])]
  /\ UNCHANGED <<guess, ab, pk, op>>

\* if self.chkfile: save 'tddft/e' and 'tddft/xy'
KernelSave ==
  /\ kn.pc = "save"
  /\ kn' = [kn EXCEPT !.pc = "finalize",
              !.chk = IF kn.chkfile THEN <<kn.e, kn.xy>> ELSE <<>>]
  /\ UNCHANGED <<guess, ab, pk, op>>

\* A finalization that refuses roots that are not converged.
KernelFinalizeStrict ==
  /\ kn.pc = "finalize"
  /\ kn' = IF \E i \in 1..Len(kn.converged) : ~kn.converged[i]
           THEN [kn EXCEPT !.pc = "raised", !.err = "RuntimeError"]
           ELSE [kn EXCEPT !.pc = "returned", !.ret = <<kn.e, kn.xy>>]
  /\ UNCHANGED <<guess, ab, pk, op>>

\* self._finalize(); return self.e, self.xy
KernelFinalize ==
  /\ kn.pc = "finalize"
  /\ kn' = [kn EXCEPT !.pc = "returned", !.ret = <<kn.e, kn.xy>>]
  /\ UNCHANGED <<guess, ab, pk, op>>

KernelNext ==
  \/ KernelEnter \/ KernelInitGuess
  \/ KernelSolveTDA \/ KernelSolveTDHF
  \/ KernelAmplitudesTDA \/ KernelAmplitudesTDHF
  \/ KernelSave \/ KernelFinalize

SpecKernel == KernelInit /\ [][KernelNext]_vars

(* Claims about the solve entry points.                                     *)

KernelSolved == kn.pc \in {"amplitudes", "save", "finalize", "returned", "raised"}
                  /\ kn.solver # NoResult

IsFiniteBlock(b) ==
  \A o \in 1..Len(b) : \A v \in 1..Len(b[o]) : b[o][v].cls = "finite"

AllFinitePairs(xy) ==
  \A i \in 1..Len(xy) : IsFiniteBlock(xy[i][1]) /\ IsFiniteBlock(xy[i][2])

IllPosedRoot == \E i \in 1..Len(kn.solver.x1) : XYNorm(kn.solver.x1[i]) <= 0

\* C3: in TDHF.kernel a root with |X|^2 - |Y|^2 zero or negative makes the
\* normalization signal an ill-posed-normalization error to the caller of
\* kernel; no amplitude pair with a NaN or infinite entry is stored or
\* returned.
C3_IllPosedNormalizationSignalled ==
  (kn.pc \in {"save", "finalize", "returned", "raised"} /\ kn.method = "TDHF"
     /\ kn.solver # NoResult /\ IllPosedRoot) =>
    /\ kn.pc = "raised"
    /\ kn.err = "IllPosedNormalization"
    /\ AllFinitePairs(kn.xy)
    /\ kn.chk = <<>> /\ kn.ret = <<>>

NotAllConverged == \E i \in 1..Len(kn.solver.conv) : ~kn.solver.conv[i]

\* C10: when the eigensolver returns without having converged every root,
\* TDA.kernel and TDHF.kernel complete without raising: the roots produced
\* are stored and returned as eigenvalues and amplitude pairs, and the
\* caller-visible converged flags contain at least one False.
C10_NonConvergenceNotFatal ==
  (KernelSolved /\ NotAllConverged) =>
    /\ kn.pc # "raised" /\ kn.err = "none"
    /\ kn.converged = kn.solver.conv
    /\ \E i \in 1..Len(kn.converged) : ~kn.converged[i]
    /\ kn.pc = "amplitudes" => ENABLED (KernelAmplitudesTDA \/ KernelAmplitudesTDHF)
    /\ kn.pc = "save" => ENABLED KernelSave
    /\ kn.pc = "finalize" => ENABLED KernelFinalize
    /\ kn.pc \in {"save", "finalize", "returned"} =>
         /\ kn.e = kn.solver.w
         /\ Len(kn.xy) = Len(kn.solver.x1)
         /\ \A i \in 1..Len(kn.xy) :
              /\ Len(kn.xy[i]) = 2
              /\ Len(kn.xy[i][1]) = KernelNocc(kn.mf)
              /\ Len(kn.xy[i][1][1]) = KernelNvir(kn.mf)
              /\ kn.method = "TDA" =>
                   kn.xy[i] = <<Unflatten(kn.solver.x1[i], KernelNocc(kn.mf),
                                          KernelNvir(kn.mf)), 0>>
              /\ kn.method = "TDHF" =>
                   kn.xy[i] = norm_xy(kn.solver.x1[i], KernelNocc(kn.mf), KernelNvir(kn.mf))
    /\ kn.pc = "returned" => kn.ret = <<kn.solver.w, kn.xy>>

\* A returned TDHF solve of two roots, one converged and one not.
C10_Witness ==
  /\ kn.pc = "returned" /\ kn.method = "TDHF"
  /\ Len(kn.converged) = 2 /\ kn.converged[1] /\ ~kn.converged[2]
  /\ Len(kn.ret) = 2 /\ Len(kn.ret[2]) = 2
  /\ kn.chkfile /\ kn.chk = kn.ret

====
